---- MODULE Spec2Model ----
(***************************************************************************)
(* Model of serenity's Member entity (src/model/guild/member.rs): the      *)
(* role-mutation protocol against the remote authority, guild resolution   *)
(* over the process-wide cache, and the guards each operation takes on the *)
(* cache, guild and user reader-writer locks.                              *)
(*                                                                         *)
(* One caller owns the Member value (`&mut self` / `&self`) and runs one   *)
(* operation at a time.  An operation runs up to its blocking remote call  *)
(* in one step; the remote authority then answers Ok or Err and the        *)
(* matching arm of the handler runs in a second step.                      *)
(***************************************************************************)
EXTENDS Integers, Sequences, FiniteSets, TLC

\* ---------------------------------------------------------------- bounds
MaxRole    == 2   \* role ids are 1..MaxRole
MaxLen     == 3   \* longest member role list explored
MaxArgLen  == 2   \* longest role_ids slice passed to add_roles/remove_roles
MaxGuild   == 2   \* cached guilds are 1..MaxGuild

RoleIds   == 1..MaxRole
GuildIds  == 1..MaxGuild

\* Only equality with self's own values is ever tested on these, so self's
\* value and one other value cover every case.
UserRefs  == {"a1", "a2"}   \* Arc<RwLock<User>> identities; self holds a1
UserIds   == {1, 2}         \* User::id values; self's user has id 1
JoinedAts == {"t1", "t2"}   \* joined_at strings; self joined at t1

VARIABLES
  cache,        \* CACHE.guilds: GuildId -> Guild {id, members, roles}
  iterOrder,    \* order in which cache.guilds.values() yields the guilds
  users,        \* the shared User records, by Arc
  member,       \* the Member the operations are called on (self)
  remoteRoles,  \* the remote authority's role set of this member, per guild
  pc,           \* "idle" | "remote" (blocked in a rest call) | "done"
  op,           \* the operation in progress / just completed
  result,       \* its return value once pc = "done"
  issued,       \* the rest calls issued by the operation, in order
  rolesBefore,  \* self.roles when the operation was entered
  lockTrace,    \* lock events of the operation so far, in program order
  webhook,      \* the Webhook the caller owns (None where it owns none)
  reply,        \* what the blocked webhook rest call returned
  threads,      \* concurrent readers: the operation each runs and how many of
                \* its lock events it has passed
  writer        \* the thread that write-locks a User record

vars == <<cache, iterOrder, users, member, remoteRoles, pc, op, result,
          issued, rolesBefore, lockTrace, webhook, reply, threads, writer>>

\* ------------------------------------------------------- sequence helpers
Range(s) == {s[i] : i \in 1..Len(s)}

\* Vec::contains / slice::contains
Contains(s, x) == \E i \in 1..Len(s) : s[i] = x

IsInjective(s) == \A i, j \in 1..Len(s) : s[i] = s[j] => i = j

SeqsUpTo(S, n) == UNION {[1..k -> S] : k \in 0..n}

Perms(S) == {s \in [1..Cardinality(S) -> S] : IsInjective(s)}

\* ------------------------------------------------------------ lock events
Store    == <<"store", 0>>
Guild(g) == <<"guild", g>>
User(u)  == <<"user", u>>

Acq(l) == [ev |-> "acq", lock |-> l]   \* RwLock::read() returns a guard
Rel(l) == [ev |-> "rel", lock |-> l]   \* the guard is dropped
Use(l) == [ev |-> "use", lock |-> l]   \* the data behind the guard is examined

\* index of the last element of s equal to x (0 when there is none)
RECURSIVE LastIndexOf(_, _)
LastIndexOf(s, x) ==
  IF s = <<>> THEN 0
  ELSE IF s[Len(s)] = x THEN Len(s)
  ELSE LastIndexOf(SubSeq(s, 1, Len(s) - 1), x)

RemoveAt(s, i) == SubSeq(s, 1, i - 1) \o SubSeq(s, i + 1, Len(s))

\* the guards held after the events tr, oldest first
RECURSIVE Held(_)
Held(tr) ==
  IF tr = <<>> THEN <<>>
  ELSE LET e    == tr[Len(tr)]
           prev == Held(SubSeq(tr, 1, Len(tr) - 1))
       IN  CASE e.ev = "acq" -> Append(prev, e.lock)
             [] e.ev = "rel" -> LET i == LastIndexOf(prev, e.lock)
                                IN  IF i = 0 THEN prev ELSE RemoveAt(prev, i)
             [] OTHER        -> prev

\* --------------------------------------------------------------- results
Unit          == "unit"
GuildNotFound == "GuildNotFound"   \* Error::Client(ClientError::GuildNotFound)
HttpError     == "HttpError"       \* whatever error the rest call returned

Ok(v)  == [tag |-> "Ok",  val |-> v]
Err(e) == [tag |-> "Err", val |-> e]
NoResult == [tag |-> "none", val |-> Unit]

\* Option<T>
NoneOpt    == [tag |-> "None", val |-> Unit]
SomeOpt(v) == [tag |-> "Some", val |-> v]
Opt(S)     == {NoneOpt} \cup {SomeOpt(x) : x \in S}
NoOp     == [name |-> "none", arg |-> Unit]

\* --------------------------------------------------------- find_guild
\* mutants of Matches: one half of the pair is not compared
Matches_user_only(m, me) == users[m.user].id = users[me.user].id

Matches_joined_only(m, me) == m.joined_at = me.joined_at

\* the `.any(|m| ...)` closure of find_guild
Matches(m, me) ==
  m.joined_at = me.joined_at /\ users[m.user].id = users[me.user].id

\* lock events of one evaluation of that closure: `&&` short-circuits, the two
\* read guards are temporaries dropped, newest first, when the closure returns
MatchTrace(m, me) ==
  IF m.joined_at = me.joined_at
  THEN <<Acq(User(m.user)), Acq(User(me.user)),
         Rel(User(me.user)), Rel(User(m.user))>>
  ELSE <<>>

\* Iterator::any over guild.members.values()
AnyMember(ms, me) == \E i \in 1..Len(ms) : Matches(ms[i], me)

RECURSIVE AnyTrace(_, _)
AnyTrace(ms, me) ==
  IF ms = <<>> THEN <<>>
  ELSE MatchTrace(Head(ms), me)
         \o (IF Matches(Head(ms), me) THEN <<>> ELSE AnyTrace(Tail(ms), me))

\* mutant of ScanGuilds: the guild guards are collected and dropped only when
\* the loop is left
RECURSIVE ScanGuilds_guards_kept(_, _)
ScanGuilds_guards_kept(order, me) ==
  IF order = <<>> THEN [res |-> Err(GuildNotFound), tr |-> <<>>]
  ELSE LET g    == Head(order)
           ms   == cache[g].members
           body == <<Acq(Guild(g)), Use(Guild(g))>> \o AnyTrace(ms, me)
       IN  IF AnyMember(ms, me)
           THEN [res |-> Ok(cache[g].id), tr |-> body \o <<Rel(Guild(g))>>]
           ELSE LET rest == ScanGuilds_guards_kept(Tail(order), me)
                IN  [res |-> rest.res,
                     tr  |-> body \o rest.tr \o <<Rel(Guild(g))>>]

\* body of `for guild in CACHE.read().unwrap().guilds.values()`
RECURSIVE ScanGuilds(_, _)
ScanGuilds(order, me) ==
  IF order = <<>> THEN [res |-> Err(GuildNotFound), tr |-> <<>>]
  ELSE LET g    == Head(order)
           ms   == cache[g].members
           body == <<Acq(Guild(g)), Use(Guild(g))>> \o AnyTrace(ms, me)
                     \o <<Rel(Guild(g))>>
       IN  IF AnyMember(ms, me)
           THEN [res |-> Ok(cache[g].id), tr |-> body]
           ELSE LET rest == ScanGuilds(Tail(order), me)
                IN  [res |-> rest.res, tr |-> body \o rest.tr]

\* mutant of find_guild: self's user guard is taken once, before the scan
find_guild_user_first(me) ==
  LET s == ScanGuilds(iterOrder, me)
  IN  [res |-> s.res,
       tr  |-> <<Acq(User(me.user)), Acq(Store)>> \o s.tr
                 \o <<Rel(Store), Rel(User(me.user))>>]

\* mutant of find_guild: the guard on CACHE outlives the call
find_guild_guard_kept(me) ==
  LET s == ScanGuilds(iterOrder, me)
  IN  [res |-> s.res, tr |-> <<Acq(Store)>> \o s.tr]

\* mutant of find_guild: a populated guild_id is returned without a scan
find_guild_stored_id(me) ==
  IF me.guild_id.tag = "Some"
  THEN [res |-> Ok(me.guild_id.val), tr |-> <<>>]
  ELSE LET s == ScanGuilds(iterOrder, me)
       IN  [res |-> s.res, tr |-> <<Acq(Store)>> \o s.tr \o <<Rel(Store)>>]

\* Member::find_guild: the guard on CACHE is a temporary of the `for`
\* expression and lives until the loop is left
find_guild(me) ==
  LET s == ScanGuilds(iterOrder, me)
  IN  [res |-> s.res, tr |-> <<Acq(Store)>> \o s.tr \o <<Rel(Store)>>]

\* ------------------------------------------------------------- roles()
\* mutant of RolesMatches: joined_at is not compared
RolesMatches_user_only(m, me) == users[m.user].id = users[me.user].id

\* the `.any(|m| ...)` closure of roles(): the user ids are compared first
RolesMatches(m, me) ==
  users[m.user].id = users[me.user].id /\ m.joined_at = me.joined_at

\* both read guards are taken before anything is compared
RolesMatchTrace(m, me) ==
  <<Acq(User(m.user)), Acq(User(me.user)),
    Rel(User(me.user)), Rel(User(m.user))>>

RolesAnyMember(ms, me) == \E i \in 1..Len(ms) : RolesMatches(ms[i], me)

RECURSIVE RolesAnyTrace(_, _)
RolesAnyTrace(ms, me) ==
  IF ms = <<>> THEN <<>>
  ELSE RolesMatchTrace(Head(ms), me)
         \o (IF RolesMatches(Head(ms), me) THEN <<>>
             ELSE RolesAnyTrace(Tail(ms), me))

\* `.find(|guild| guild.read().unwrap().members.values().any(..))`
RECURSIVE RolesFind(_, _)
RolesFind(order, me) ==
  IF order = <<>> THEN [found |-> 0, tr |-> <<>>]
  ELSE LET g    == Head(order)
           ms   == cache[g].members
           body == <<Acq(Guild(g)), Use(Guild(g))>> \o RolesAnyTrace(ms, me)
                     \o <<Rel(Guild(g))>>
       IN  IF RolesAnyMember(ms, me)
           THEN [found |-> g, tr |-> body]
           ELSE LET rest == RolesFind(Tail(order), me)
                IN  [found |-> rest.found, tr |-> body \o rest.tr]

\* Member::roles: the guard on CACHE is a temporary of the whole expression
Member_roles(me) ==
  LET f == RolesFind(iterOrder, me)
  IN  IF f.found = 0
      THEN [res |-> NoneOpt, tr |-> <<Acq(Store)>> \o f.tr \o <<Rel(Store)>>]
      ELSE [res |-> SomeOpt(SelectSeq(cache[f.found].roles,
                               LAMBDA role : Contains(me.roles, role.id))),
            tr  |-> <<Acq(Store)>> \o f.tr
                      \o <<Acq(Guild(f.found)), Use(Guild(f.found)),
                           Rel(Guild(f.found)), Rel(Store)>>]

\* ------------------------------------------------------------ colour()
DefaultColour == 0   \* Colour::default()

\* Ord for Role: by position, then by id
RoleLess(a, b) ==
  IF a.position = b.position THEN a.id < b.id ELSE a.position < b.position

\* roles.sort_by(|a, b| b.cmp(a)): insertion into a descending list
RECURSIVE InsertDesc(_, _)
InsertDesc(s, x) ==
  IF s = <<>> THEN <<x>>
  ELSE IF RoleLess(Head(s), x) THEN <<x>> \o s
  ELSE <<Head(s)>> \o InsertDesc(Tail(s), x)

\* mutant of SortDesc: the comparison is a.cmp(b), the list ascends
RECURSIVE SortDesc_ascending(_)
SortDesc_ascending(s) ==
  IF s = <<>> THEN <<>>
  ELSE LET rest == SortDesc_ascending(Tail(s))
           lo   == SelectSeq(rest, LAMBDA x : RoleLess(x, Head(s)))
           hi   == SelectSeq(rest, LAMBDA x : ~RoleLess(x, Head(s)))
       IN  lo \o <<Head(s)>> \o hi

RECURSIVE SortDesc(_)
SortDesc(s) ==
  IF s = <<>> THEN <<>> ELSE InsertDesc(SortDesc(Tail(s)), Head(s))

\* guild.roles.get(role_id)
RoleOf(g, r) == SelectSeq(cache[g].roles, LAMBDA role : role.id = r)

\* self.roles.iter().filter_map(|role_id| guild.roles.get(role_id))
RECURSIVE FilterMapRoles(_, _)
FilterMapRoles(g, rs) ==
  IF rs = <<>> THEN <<>> ELSE RoleOf(g, Head(rs)) \o FilterMapRoles(g, Tail(rs))

\* roles.iter().find(|r| r.colour.0 != default.0).map(|r| r.colour)
FirstColoured(s) ==
  LET c == SelectSeq(s, LAMBDA role : role.colour # DefaultColour)
  IN  IF c = <<>> THEN NoneOpt ELSE SomeOpt(Head(c).colour)

\* Member::colour: `cache` and `guild` are locals, dropped newest first
colour(me) ==
  LET fg == find_guild(me)
  IN  IF fg.res.tag = "Err" THEN [res |-> NoneOpt, tr |-> fg.tr]
      ELSE IF fg.res.val \notin DOMAIN cache
      THEN [res |-> NoneOpt, tr |-> fg.tr \o <<Acq(Store), Rel(Store)>>]
      ELSE LET g == fg.res.val
           IN  [res |-> FirstColoured(SortDesc(FilterMapRoles(g, me.roles))),
                tr  |-> fg.tr \o <<Acq(Store), Acq(Guild(g)), Use(Guild(g)),
                                   Rel(Guild(g)), Rel(Store)>>]

\* ------------------------------------------------------ role list edits
\* mutant of add_role_noop: the membership test is missing
add_role_noop_never(roles, r) == FALSE

\* add_role: `if self.roles.contains(&role_id) { return Ok(()) }`
add_role_noop(roles, r) == Contains(roles, r)

\* mutant of add_role_commit: the confirmed role is not recorded
add_role_commit_skipped(roles, r) == roles

\* add_role, Ok arm: self.roles.push(role_id)
add_role_commit(roles, r) == Append(roles, r)

\* mutant of add_roles_speculate: ids already held are not added again
add_roles_speculate_new_only(roles, L) ==
  roles \o SelectSeq(L, LAMBDA r : ~Contains(roles, r))

\* add_roles: self.roles.extend_from_slice(role_ids)
add_roles_speculate(roles, L) == roles \o L

\* add_roles, Err arm: self.roles.retain(|r| !role_ids.contains(r))
add_roles_rollback(roles, L) == SelectSeq(roles, LAMBDA r : ~Contains(L, r))

\* remove_role: `if !self.roles.contains(&role_id) { return Ok(()) }`
remove_role_noop(roles, r) == ~Contains(roles, r)

\* mutant of remove_role_commit: only the first occurrence is removed
remove_role_commit_first(roles, r) ==
  LET i == CHOOSE k \in 1..Len(roles) :
             roles[k] = r /\ \A j \in 1..(k - 1) : roles[j] # r
  IN  RemoveAt(roles, i)

\* remove_role, Ok arm: self.roles.retain(|r| r.0 != role_id.0)
remove_role_commit(roles, r) == SelectSeq(roles, LAMBDA x : x # r)

\* remove_roles: self.roles.retain(|r| !role_ids.contains(r))
remove_roles_speculate(roles, L) == SelectSeq(roles, LAMBDA r : ~Contains(L, r))

\* remove_roles, Err arm: self.roles.extend_from_slice(role_ids)
remove_roles_rollback(roles, L) == roles \o L

\* what the Ok arm of the operation's `match rest::...` does to self.roles
OnOk(o, roles) ==
  CASE o.name = "add_role"    -> add_role_commit(roles, o.arg)
    [] o.name = "remove_role" -> remove_role_commit(roles, o.arg)
    [] OTHER                  -> roles

\* what the Err arm does to self.roles
OnErr(o, roles) ==
  CASE o.name = "add_roles"    -> add_roles_rollback(roles, o.arg)
    [] o.name = "remove_roles" -> remove_roles_rollback(roles, o.arg)
    [] OTHER                   -> roles

\* --------------------------------------------------------- remote calls
Call(f, g, payload) ==
  [fn |-> f, guild |-> g, user |-> users[member.user].id, payload |-> payload]

\* effect of a successful call on the remote authority's role set
RemoteApply(c, rr) ==
  CASE c.fn = "add_member_role" ->
         [rr EXCEPT ![c.guild] = @ \cup {c.payload}]
    [] c.fn = "remove_member_role" ->
         [rr EXCEPT ![c.guild] = @ \ {c.payload}]
    [] c.fn = "edit_member" /\ c.payload.key = "roles" ->
         [rr EXCEPT ![c.guild] = Range(c.payload.val)]
    [] OTHER -> rr

\* EditMember::default().roles(&self.roles).0
RolesMap(roles) == [key |-> "roles", val |-> roles]

\* ------------------------------------------------------------------ Init
Entries == [user : UserRefs, joined_at : JoinedAts]

\* guild.members is keyed by user id: one entry per user id, in the order
\* members.values() yields them
MemberSeqs(ids) ==
  {s \in SeqsUpTo(Entries, Cardinality(UserIds)) :
     \A i, j \in 1..Len(s) : ids[s[i].user] = ids[s[j].user] => i = j}

\* role ids are unique across guilds: role r belongs to one guild
RoleOwner(r) == ((r - 1) % MaxGuild) + 1

GuildRoles(g) ==
  SelectSeq([r \in RoleIds |-> [id |-> r, position |-> r, colour |-> r]],
            LAMBDA role : RoleOwner(role.id) = g)

Self(rs) ==
  [roles |-> rs, joined_at |-> "t1", user |-> "a1", nick |-> NoneOpt,
   guild_id |-> NoneOpt]

\* threads calling find_guild or roles on self, and the one writer
Threads    == {"r1", "r2"}
NotStarted == [op |-> "none", pos |-> 0]
NoWriter   == [st |-> "idle", user |-> "none"]

\* a User record as deserialized
Names  == {"ann", "bob", "cy"}
UserOf(id) == [id |-> id, name |-> "ann", discriminator |-> "0001"]

CacheOf(ms) ==
  [g \in GuildIds |-> [id |-> g, members |-> ms[g], roles |-> GuildRoles(g)]]

\* Role tables: each role id is unknown to the cache (guild 0) or is a Role
\* of one guild, at some position, default-coloured or with a colour of its
\* own; guild.roles.values() yields the roles by ascending id.
Positions == 1..MaxRole

RoleTables ==
  {t \in [RoleIds -> [guild : GuildIds \cup {0}, position : Positions,
                      coloured : BOOLEAN]] :
     \A r \in RoleIds : t[r].guild = 0 => t[r].position = 1 /\ ~t[r].coloured}

TableRoles(t, g) ==
  SelectSeq([r \in RoleIds |->
               [id |-> r, position |-> t[r].position,
                colour |-> IF t[r].coloured THEN r ELSE DefaultColour]],
            LAMBDA role : t[role.id].guild = g)

Idle ==
  /\ pc = "idle"
  /\ op = NoOp
  /\ result = NoResult
  /\ issued = <<>>
  /\ rolesBefore = <<>>
  /\ lockTrace = <<>>
  /\ reply = NoResult
  /\ threads = [t \in Threads |-> NotStarted]
  /\ writer = NoWriter

\* Role protocol: self is cached in at most one guild, holds any duplicate-free
\* role list, and the remote authority agrees with it.
Init ==
  /\ users = [u \in UserRefs |-> UserOf(IF u = "a1" THEN 1 ELSE 2)]
  /\ \E owner \in GuildIds \cup {0} :
       cache = CacheOf([g \in GuildIds |->
                  IF g = owner THEN <<[user |-> "a1", joined_at |-> "t1"]>>
                  ELSE <<>>])
  /\ iterOrder = [i \in 1..MaxGuild |-> i]
  /\ \E rs \in SeqsUpTo(RoleIds, MaxRole) :
       /\ IsInjective(rs)
       /\ member = Self(rs)
       /\ remoteRoles = [g \in GuildIds |-> Range(rs)]
  /\ webhook = NoneOpt
  /\ Idle

\* Guild resolution: any cache content, any iteration order, and a second
\* User record that is either the same person as self's or someone else.
InitCache ==
  /\ \E ids \in [UserRefs -> UserIds] :
       /\ ids["a1"] = 1
       /\ users = [u \in UserRefs |-> UserOf(ids[u])]
       /\ \E ms \in [GuildIds -> MemberSeqs(ids)] : cache = CacheOf(ms)
  /\ iterOrder \in Perms(GuildIds)
  /\ \E rs \in {<<>>, <<1>>} :
       /\ member = Self(rs)
       /\ remoteRoles = [g \in GuildIds |-> Range(rs)]
  /\ webhook = NoneOpt
  /\ Idle

\* Colour: self is cached in guild 1 or nowhere, the guilds hold any role
\* table, and self holds any duplicate-free role list.
InitColour ==
  /\ users = [u \in UserRefs |-> UserOf(IF u = "a1" THEN 1 ELSE 2)]
  /\ \E owner \in {0, 1}, t \in RoleTables :
       cache = [g \in GuildIds |->
                  [id |-> g,
                   members |-> IF g = owner
                               THEN <<[user |-> "a1", joined_at |-> "t1"]>>
                               ELSE <<>>,
                   roles |-> TableRoles(t, g)]]
  /\ iterOrder = [i \in 1..MaxGuild |-> i]
  /\ \E rs \in SeqsUpTo(RoleIds, MaxRole) :
       /\ IsInjective(rs)
       /\ member = Self(rs)
       /\ remoteRoles = [g \in GuildIds |-> Range(rs)]
  /\ webhook = NoneOpt
  /\ Idle

\* --------------------------------------------------------------- actions
\* the operation returned without reaching a rest call
Return(o, res, tr) ==
  /\ pc' = "done"
  /\ op' = o
  /\ result' = res
  /\ issued' = <<>>
  /\ lockTrace' = tr
  /\ rolesBefore' = member.roles
  /\ UNCHANGED <<threads, writer,
                 cache, iterOrder, users, member, remoteRoles, webhook, reply>>

\* the operation issued rest call c with self.roles = roles and now blocks;
\* the read guard on self.user taken for the call's argument is a temporary
\* of the enclosing statement and is still held
Block(o, c, roles, tr) ==
  /\ pc' = "remote"
  /\ op' = o
  /\ result' = NoResult
  /\ issued' = <<c>>
  /\ lockTrace' = tr \o <<Acq(User(member.user))>>
  /\ rolesBefore' = member.roles
  /\ member' = [member EXCEPT !.roles = roles]
  /\ UNCHANGED <<threads, writer,
                 cache, iterOrder, users, remoteRoles, webhook, reply>>

add_role(r) ==
  /\ pc = "idle"
  /\ Len(member.roles) < MaxLen \/ add_role_noop(member.roles, r)
  /\ LET o  == [name |-> "add_role", arg |-> r]
         fg == find_guild(member)
     IN  IF add_role_noop(member.roles, r) THEN Return(o, Ok(Unit), <<>>)
         ELSE IF fg.res.tag = "Err" THEN Return(o, fg.res, fg.tr)
         ELSE Block(o, Call("add_member_role", fg.res.val, r),
                    member.roles, fg.tr)

add_roles(L) ==
  /\ pc = "idle"
  /\ Len(member.roles) + Len(L) <= MaxLen
  /\ LET o  == [name |-> "add_roles", arg |-> L]
         fg == find_guild(member)
         rs == add_roles_speculate(member.roles, L)
     IN  IF fg.res.tag = "Err" THEN Return(o, fg.res, fg.tr)
         ELSE Block(o, Call("edit_member", fg.res.val, RolesMap(rs)),
                    rs, fg.tr)

remove_role(r) ==
  /\ pc = "idle"
  /\ LET o  == [name |-> "remove_role", arg |-> r]
         fg == find_guild(member)
     IN  IF remove_role_noop(member.roles, r) THEN Return(o, Ok(Unit), <<>>)
         ELSE IF fg.res.tag = "Err" THEN Return(o, fg.res, fg.tr)
         ELSE Block(o, Call("remove_member_role", fg.res.val, r),
                    member.roles, fg.tr)

remove_roles(L) ==
  /\ pc = "idle"
  /\ Len(member.roles) + Len(L) <= MaxLen
  /\ LET o  == [name |-> "remove_roles", arg |-> L]
         fg == find_guild(member)
         rs == remove_roles_speculate(member.roles, L)
     IN  IF fg.res.tag = "Err" THEN Return(o, fg.res, fg.tr)
         ELSE Block(o, Call("edit_member", fg.res.val, RolesMap(rs)),
                    rs, fg.tr)

\* ban: the arguments are evaluated left to right, find_guild()? first
ban(days) ==
  /\ pc = "idle"
  /\ LET o  == [name |-> "ban", arg |-> days]
         fg == find_guild(member)
     IN  IF fg.res.tag = "Err" THEN Return(o, fg.res, fg.tr)
         ELSE Block(o, Call("ban_user", fg.res.val, days), member.roles, fg.tr)

unban ==
  /\ pc = "idle"
  /\ LET o  == [name |-> "unban", arg |-> Unit]
         fg == find_guild(member)
     IN  IF fg.res.tag = "Err" THEN Return(o, fg.res, fg.tr)
         ELSE Block(o, Call("remove_ban", fg.res.val, Unit), member.roles, fg.tr)

\* edit: f(EditMember::default()).0 is built after the guild resolved
edit(map) ==
  /\ pc = "idle"
  /\ LET o  == [name |-> "edit", arg |-> map]
         fg == find_guild(member)
     IN  IF fg.res.tag = "Err" THEN Return(o, fg.res, fg.tr)
         ELSE Block(o, Call("edit_member", fg.res.val, map), member.roles, fg.tr)

\* the read-only operations return without a rest call
find_guild_op ==
  /\ pc = "idle"
  /\ LET fg == find_guild(member)
     IN  Return([name |-> "find_guild", arg |-> Unit], fg.res, fg.tr)

roles_op ==
  /\ pc = "idle"
  /\ LET rl == Member_roles(member)
     IN  Return([name |-> "roles", arg |-> Unit], rl.res, rl.tr)

colour_op ==
  /\ pc = "idle"
  /\ LET cl == colour(member)
     IN  Return([name |-> "colour", arg |-> Unit], cl.res, cl.tr)

\* the blocked rest call succeeded: the Ok arm runs and the operation returns
RemoteOk ==
  /\ pc = "remote"
  /\ remoteRoles' = RemoteApply(issued[Len(issued)], remoteRoles)
  /\ member' = [member EXCEPT !.roles = OnOk(op, member.roles)]
  /\ lockTrace' = lockTrace \o <<Rel(User(member.user))>>
  /\ result' = Ok(Unit)
  /\ pc' = "done"
  /\ UNCHANGED <<threads, writer,
                 cache, iterOrder, users, op, issued, rolesBefore, webhook,
                 reply>>

\* the blocked rest call failed: the Err arm runs and the error is returned
RemoteErr ==
  /\ pc = "remote"
  /\ member' = [member EXCEPT !.roles = OnErr(op, member.roles)]
  /\ lockTrace' = lockTrace \o <<Rel(User(member.user))>>
  /\ result' = Err(HttpError)
  /\ pc' = "done"
  /\ UNCHANGED <<threads, writer,
                 cache, iterOrder, users, remoteRoles, op, issued, rolesBefore,
                 webhook, reply>>

\* the caller is ready for its next call
Next_call ==
  /\ pc = "done"
  /\ pc' = "idle"
  /\ op' = NoOp
  /\ result' = NoResult
  /\ issued' = <<>>
  /\ rolesBefore' = <<>>
  /\ lockTrace' = <<>>
  /\ reply' = NoResult
  /\ UNCHANGED <<threads, writer,
                 cache, iterOrder, users, member, remoteRoles, webhook>>

ArgLists == SeqsUpTo(RoleIds, MaxArgLen)

\* closures passed to edit: fields of EditMember other than the role list
EditMaps == {[key |-> "none", val |-> Unit], [key |-> "nick", val |-> "n"]}

DeleteDays == {0, 7}

Next ==
  \/ \E r \in RoleIds : add_role(r)
  \/ \E L \in ArgLists : add_roles(L)
  \/ \E r \in RoleIds : remove_role(r)
  \/ \E L \in ArgLists : remove_roles(L)
  \/ \E d \in DeleteDays : ban(d)
  \/ unban
  \/ \E map \in EditMaps : edit(map)
  \/ find_guild_op
  \/ roles_op
  \/ colour_op
  \/ RemoteOk
  \/ RemoteErr
  \/ Next_call

Spec == Init /\ [][Next]_vars

\* one call on an arbitrary cache
NextCache ==
  \/ \E r \in RoleIds : add_role(r)
  \/ \E r \in RoleIds : add_roles(<<r>>)
  \/ \E r \in RoleIds : remove_role(r)
  \/ \E r \in RoleIds : remove_roles(<<r>>)
  \/ \E d \in DeleteDays : ban(d)
  \/ unban
  \/ \E map \in EditMaps : edit(map)
  \/ find_guild_op
  \/ roles_op
  \/ colour_op
  \/ RemoteOk
  \/ RemoteErr

SpecCache == InitCache /\ [][NextCache]_vars

\* one read of the member's colour or roles
NextColour ==
  \/ colour_op
  \/ roles_op

SpecColour == InitColour /\ [][NextColour]_vars

\* ------------------------------------------------------------ display name
\* mutant of display_name: the user's name takes priority over the nickname
display_name_user_first(me) ==
  [res |-> users[me.user].name,
   tr  |-> <<Acq(User(me.user)), Use(User(me.user)), Rel(User(me.user))>>]

\* self.nick, or else a clone of the name read under the User's read guard
display_name(me) ==
  IF me.nick.tag = "Some"
  THEN [res |-> me.nick.val, tr |-> <<>>]
  ELSE [res |-> users[me.user].name,
        tr  |-> <<Acq(User(me.user)), Use(User(me.user)), Rel(User(me.user))>>]

\* format!("{}#{}", name, discriminator)
Tag(name, discriminator) == <<name, "#", discriminator>>

\* the guard taken for the discriminator is a temporary of the format! statement
distinct(me) ==
  [res |-> Tag(display_name(me).res, users[me.user].discriminator),
   tr  |-> display_name(me).tr
             \o <<Acq(User(me.user)), Use(User(me.user)), Rel(User(me.user))>>]

display_name_op ==
  /\ pc = "idle"
  /\ LET dn == display_name(member)
     IN  Return([name |-> "display_name", arg |-> Unit],
                [tag |-> "Cow", val |-> dn.res], dn.tr)

distinct_op ==
  /\ pc = "idle"
  /\ LET ds == distinct(member)
     IN  Return([name |-> "distinct", arg |-> Unit],
                [tag |-> "String", val |-> ds.res], ds.tr)

\* another holder of the Arc writes the shared User's name
User_write(u, name) ==
  /\ pc = "idle"
  /\ users[u].name # name
  /\ users' = [users EXCEPT ![u].name = name]
  /\ UNCHANGED <<threads, writer,
                 cache, iterOrder, member, remoteRoles, pc, op, result, issued,
                 rolesBefore, lockTrace, webhook, reply>>

\* self is the Member of either User, with or without a nickname
InitName ==
  /\ users = [u \in UserRefs |-> UserOf(IF u = "a1" THEN 1 ELSE 2)]
  /\ cache = CacheOf([g \in GuildIds |-> <<>>])
  /\ iterOrder = [i \in 1..MaxGuild |-> i]
  /\ \E u \in UserRefs, nick \in Opt(Names) :
       member = [Self(<<>>) EXCEPT !.user = u, !.nick = nick]
  /\ remoteRoles = [g \in GuildIds |-> {}]
  /\ webhook = NoneOpt
  /\ Idle

NextName ==
  \/ display_name_op
  \/ distinct_op
  \/ \E u \in UserRefs, name \in Names : User_write(u, name)
  \/ Next_call

SpecName == InitName /\ [][NextName]_vars

\* ------------------------------------------------------ concurrent readers
\* the lock events of the operation thread t runs on self, in program order
ThreadTrace(t) ==
  CASE threads[t].op = "find_guild" -> find_guild(member).tr
    [] threads[t].op = "roles"      -> Member_roles(member).tr
    [] OTHER                        -> <<>>

Running(t)   == threads[t].pos < Len(ThreadTrace(t))
NextEvent(t) == ThreadTrace(t)[threads[t].pos + 1]

\* the guards thread t holds
ThreadHeld(t) == Held(SubSeq(ThreadTrace(t), 1, threads[t].pos))

HoldsUser(t, u) ==
  \E j \in 1..Len(ThreadHeld(t)) :
     ThreadHeld(t)[j][1] = "user" /\ ThreadHeld(t)[j][2] = u

\* RwLock::read(): a reader-writer lock that admits no new reader while a
\* writer holds the lock or waits for it
CanRead(l) ==
  ~(l[1] = "user" /\ l[2] = writer.user /\ writer.st \in {"waiting", "writing"})

\* RwLock::write(): granted when no read guard is out
CanWrite(u) == \A t \in Threads : ~HoldsUser(t, u)

\* thread t calls find_guild or roles on self
Start(t, name) ==
  /\ threads[t].op = "none"
  /\ threads' = [threads EXCEPT ![t] = [op |-> name, pos |-> 0]]
  /\ UNCHANGED <<cache, iterOrder, users, member, remoteRoles, pc, op, result,
                 issued, rolesBefore, lockTrace, webhook, reply, writer>>

\* thread t passes its next lock event; an acquisition waits for the lock
Step(t) ==
  /\ Running(t)
  /\ NextEvent(t).ev = "acq" => CanRead(NextEvent(t).lock)
  /\ threads' = [threads EXCEPT ![t].pos = @ + 1]
  /\ UNCHANGED <<cache, iterOrder, users, member, remoteRoles, pc, op, result,
                 issued, rolesBefore, lockTrace, webhook, reply, writer>>

\* the writer asks for the write lock of User record u and waits
Writer_request(u) ==
  /\ writer.st = "idle"
  /\ writer' = [st |-> "waiting", user |-> u]
  /\ UNCHANGED <<cache, iterOrder, users, member, remoteRoles, pc, op, result,
                 issued, rolesBefore, lockTrace, webhook, reply, threads>>

Writer_acquire ==
  /\ writer.st = "waiting"
  /\ CanWrite(writer.user)
  /\ writer' = [writer EXCEPT !.st = "writing"]
  /\ UNCHANGED <<cache, iterOrder, users, member, remoteRoles, pc, op, result,
                 issued, rolesBefore, lockTrace, webhook, reply, threads>>

\* the writer updates the profile and drops the write guard
Writer_release ==
  /\ writer.st = "writing"
  /\ users' = [users EXCEPT ![writer.user].name = "bob"]
  /\ writer' = [writer EXCEPT !.st = "done"]
  /\ UNCHANGED <<cache, iterOrder, member, remoteRoles, pc, op, result,
                 issued, rolesBefore, lockTrace, webhook, reply, threads>>

\* what a guild's member collection holds: nothing, a member sharing self's
\* User record, or a member with a User record of its own
SharedMembers ==
  {<<>>, <<[user |-> "a1", joined_at |-> "t1"]>>,
         <<[user |-> "a2", joined_at |-> "t1"]>>}

InitLocks ==
  /\ users = [u \in UserRefs |-> UserOf(IF u = "a1" THEN 1 ELSE 2)]
  /\ \E ms \in [GuildIds -> SharedMembers] : cache = CacheOf(ms)
  /\ iterOrder = [i \in 1..MaxGuild |-> i]
  /\ member = Self(<<>>)
  /\ remoteRoles = [g \in GuildIds |-> {}]
  /\ webhook = NoneOpt
  /\ Idle

\* Stored guild id: self carries any guild_id or none, whatever the cache holds
InitResolve ==
  /\ users = [u \in UserRefs |-> UserOf(IF u = "a1" THEN 1 ELSE 2)]
  /\ \E ms \in [GuildIds -> SharedMembers] : cache = CacheOf(ms)
  /\ iterOrder \in Perms(GuildIds)
  /\ \E rs \in {<<>>, <<1>>}, gid \in Opt(GuildIds) :
       /\ member = [Self(rs) EXCEPT !.guild_id = gid]
       /\ remoteRoles = [g \in GuildIds |-> Range(rs)]
  /\ webhook = NoneOpt
  /\ Idle

SpecResolve == InitResolve /\ [][NextCache]_vars

NextLocks ==
  \/ \E t \in Threads, name \in {"find_guild", "roles"} : Start(t, name)
  \/ \E t \in Threads : Step(t)
  \/ \E u \in UserRefs : Writer_request(u)
  \/ Writer_acquire
  \/ Writer_release

SpecLocks == InitLocks /\ [][NextLocks]_vars

\* ---------------------------------------------------------------- Webhook
WebhookIds   == {"w1", "w2"}
ChannelIds   == {"c1", "c2"}
Tokens       == {"k1", "k2"}
HookErrors   == {HttpError, "NotFound"}

\* struct Webhook
Webhooks ==
  [id : WebhookIds, avatar : Opt({"img"}), channel_id : ChannelIds,
   guild_id : Opt({"g1"}), name : Opt({"n"}), token : Tokens,
   user : Opt({"u1"})]

\* serde_json Value
JNull      == [type |-> "Null", s |-> ""]
JString(x) == [type |-> "String", s |-> x]

\* mutant of edit_noop: one absent argument is enough to return early
edit_noop_either(name, avatar) == name.tag = "None" \/ avatar.tag = "None"

\* `if name.is_none() && avatar.is_none() { return Ok(()); }`
edit_noop(name, avatar) == name.tag = "None" /\ avatar.tag = "None"

\* mutant of AvatarValue: the empty avatar is sent as a string
AvatarValue_always_string(avatar) == JString(avatar)

\* the value inserted under "avatar"
AvatarValue(avatar) == IF avatar = "" THEN JNull ELSE JString(avatar)

\* the map built by edit
EditMap(name, avatar) ==
  LET keys == (IF avatar.tag = "Some" THEN {"avatar"} ELSE {})
                \cup (IF name.tag = "Some" THEN {"name"} ELSE {})
  IN  [k \in keys |->
         IF k = "avatar" THEN AvatarValue(avatar.val) ELSE JString(name.val)]

NoPayload == [k \in {} |-> JNull]

\* a rest call authenticated by the webhook's id and token
HookCall(f, payload) ==
  [fn |-> f, id |-> webhook.id, token |-> webhook.token, payload |-> payload]

\* mutant of replace: only the fields an edit can name are taken over
replace_edited_fields(self, replacement) ==
  [self EXCEPT !.name = replacement.name, !.avatar = replacement.avatar]

\* mem::replace(self, replacement)
replace(self, replacement) == replacement

\* mutant of Webhook_failed: the requested name is dropped locally
Webhook_failed_name_dropped(self, why) ==
  [self |-> [self EXCEPT !.name = NoneOpt], res |-> Err(why)]

\* the `Err(why) => Err(why)` arm of edit and refresh
Webhook_failed(self, why) == [self |-> self, res |-> Err(why)]

\* the operation issued rest call c and now blocks
HookBlock(o, c) ==
  /\ pc' = "remote"
  /\ op' = o
  /\ result' = NoResult
  /\ issued' = <<c>>
  /\ UNCHANGED <<threads, writer,
                 cache, iterOrder, users, member, remoteRoles, rolesBefore,
                 lockTrace, webhook, reply>>

Webhook_edit(name, avatar) ==
  /\ pc = "idle"
  /\ LET o == [name |-> "Webhook::edit",
               arg |-> [name |-> name, avatar |-> avatar]]
     IN  IF edit_noop(name, avatar)
         THEN /\ pc' = "done"
              /\ op' = o
              /\ result' = Ok(Unit)
              /\ issued' = <<>>
              /\ UNCHANGED <<threads, writer,
                             cache, iterOrder, users, member, remoteRoles,
                             rolesBefore, lockTrace, webhook, reply>>
         ELSE HookBlock(o, HookCall("edit_webhook_with_token",
                                    EditMap(name, avatar)))

Webhook_refresh ==
  /\ pc = "idle"
  /\ HookBlock([name |-> "Webhook::refresh", arg |-> Unit],
               HookCall("get_webhook_with_token", NoPayload))

Webhook_delete ==
  /\ pc = "idle"
  /\ HookBlock([name |-> "Webhook::delete", arg |-> Unit],
               HookCall("delete_webhook_with_token", NoPayload))

Webhook_execute(content) ==
  /\ pc = "idle"
  /\ HookBlock([name |-> "Webhook::execute", arg |-> content],
               HookCall("execute_webhook",
                        [k \in {"content"} |-> JString(content)]))

HookWrites == {"Webhook::edit", "Webhook::refresh"}

\* the blocked call of edit or refresh returned a Webhook: the Ok arm runs
WebhookOk ==
  /\ pc = "remote"
  /\ op.name \in HookWrites
  /\ \E replacement \in Webhooks :
       /\ reply' = Ok(replacement)
       /\ webhook' = replace(webhook, replacement)
  /\ result' = Ok(Unit)
  /\ pc' = "done"
  /\ UNCHANGED <<threads, writer,
                 cache, iterOrder, users, member, remoteRoles, op, issued,
                 rolesBefore, lockTrace>>

\* the blocked call of delete or execute succeeded: its value is returned as is
WebhookDone ==
  /\ pc = "remote"
  /\ op.name \in {"Webhook::delete", "Webhook::execute"}
  /\ reply' = Ok(IF op.name = "Webhook::delete" THEN Unit ELSE "message")
  /\ result' = reply'
  /\ pc' = "done"
  /\ UNCHANGED <<threads, writer,
                 cache, iterOrder, users, member, remoteRoles, op, issued,
                 rolesBefore, lockTrace, webhook>>

\* the blocked call failed
WebhookErr ==
  /\ pc = "remote"
  /\ \E why \in HookErrors :
       /\ reply' = Err(why)
       /\ IF op.name \in HookWrites
          THEN LET f == Webhook_failed(webhook, why)
               IN  webhook' = f.self /\ result' = f.res
          ELSE webhook' = webhook /\ result' = Err(why)
  /\ pc' = "done"
  /\ UNCHANGED <<threads, writer,
                 cache, iterOrder, users, member, remoteRoles, op, issued,
                 rolesBefore, lockTrace>>

\* the caller owns any Webhook; no Member is involved
InitWebhook ==
  /\ users = [u \in UserRefs |-> UserOf(IF u = "a1" THEN 1 ELSE 2)]
  /\ cache = CacheOf([g \in GuildIds |-> <<>>])
  /\ iterOrder = [i \in 1..MaxGuild |-> i]
  /\ member = Self(<<>>)
  /\ remoteRoles = [g \in GuildIds |-> {}]
  /\ webhook \in Webhooks
  /\ Idle

NameArgs   == Opt({"", "n"})
AvatarArgs == Opt({"", "img"})

NextWebhook ==
  \/ \E name \in NameArgs, avatar \in AvatarArgs : Webhook_edit(name, avatar)
  \/ Webhook_refresh
  \/ Webhook_delete
  \/ Webhook_execute("hi")
  \/ WebhookOk
  \/ WebhookDone
  \/ WebhookErr
  \/ Next_call

SpecWebhook == InitWebhook /\ [][NextWebhook]_vars

\* ------------------------------------------------------- claim vocabulary
\* the guilds whose member collection holds an entry with self's
\* (user id, joined_at) pair
MatchingGuilds(me) ==
  {g \in GuildIds :
     \E m \in Range(cache[g].members) :
        /\ users[m.user].id = users[me.user].id
        /\ m.joined_at = me.joined_at}

Completed(name) == pc = "done" /\ op.name = name
Failed(e)       == result.tag = "Err" /\ result.val = e
Succeeded       == result.tag = "Ok"

\* the guards held before event i of the operation
HeldBefore(i) == Held(SubSeq(lockTrace, 1, i - 1))
HoldsKind(h, k) == \E j \in 1..Len(h) : h[j][1] = k

\* C1: when the remote edit_member call of add_roles(L) fails, the member's
\* role set after the call equals the role set before the call, whatever L is.
C1_AddRolesRollback ==
  (Completed("add_roles") /\ Failed(HttpError))
    => Range(member.roles) = Range(rolesBefore)

\* C2: when the remote edit_member call of remove_roles(L) fails, the member's
\* role set after the call equals the role set before the call, whatever L is.
C2_RemoveRolesRollback ==
  (Completed("remove_roles") /\ Failed(HttpError))
    => Range(member.roles) = Range(rolesBefore)

\* C3: between calls the local role set equals the remote authority's role
\* set of the member's guild, and a role call that returned an error left the
\* role list as it was before the call.
C3_LocalRemoteAgree ==
  /\ (pc \in {"idle", "done"} /\ find_guild(member).res.tag = "Ok")
       => Range(member.roles) = remoteRoles[find_guild(member).res.val]
  /\ (pc = "done" /\ result.tag = "Err"
        /\ op.name \in {"add_role", "add_roles", "remove_role", "remove_roles"})
       => member.roles = rolesBefore

\* C4: add_role(r) with r already in the role list issues no remote call, does
\* not even resolve the guild, returns Ok and leaves the role list unchanged.
C4_AddRoleIdempotent ==
  (Completed("add_role") /\ Contains(rolesBefore, op.arg))
    => /\ Succeeded
       /\ issued = <<>>
       /\ lockTrace = <<>>
       /\ member.roles = rolesBefore

C4_Witness ==
  /\ Completed("add_role")
  /\ Contains(rolesBefore, op.arg)
  /\ Succeeded
  /\ MatchingGuilds(member) = {}

\* C5: add_role(r) with r not held and a resolvable guild: the role list is
\* still the pre-call list while the add_member_role call is in flight, r is
\* appended exactly when the call succeeded, and a failed call leaves the list
\* unchanged and returns the error.
C5_State ==
  /\ (pc = "remote" /\ op.name = "add_role")
       => /\ member.roles = rolesBefore
          /\ ~Contains(member.roles, op.arg)
          /\ Len(issued) = 1
          /\ issued[1].fn = "add_member_role"
          /\ issued[1].payload = op.arg
  /\ (Completed("add_role") /\ ~Contains(rolesBefore, op.arg)
        /\ MatchingGuilds(member) # {})
       => /\ Succeeded => member.roles = Append(rolesBefore, op.arg)
          /\ ~Succeeded => Failed(HttpError) /\ member.roles = rolesBefore

C5_Step ==
  (op'.name = "add_role" /\ member'.roles # member.roles)
    => pc = "remote" /\ pc' = "done" /\ result'.tag = "Ok"

C5_AddRolePessimistic == [](C5_State) /\ [][C5_Step]_vars

C5_Witness ==
  /\ Completed("add_role")
  /\ Succeeded
  /\ member.roles = Append(rolesBefore, op.arg)
  /\ rolesBefore # <<>>

\* C6 (as claimed): remove_role(r) with r absent returns Ok without a remote
\* call or change; otherwise exactly one remove_member_role call is issued, on
\* success no r remains and the other roles keep their order, on failure the
\* list is unchanged and the error is returned.
C6_Outcome ==
  /\ Len(issued) = 1
  /\ issued[1].fn = "remove_member_role"
  /\ issued[1].payload = op.arg
  /\ Succeeded =>
       member.roles = SelectSeq(rolesBefore, LAMBDA x : x # op.arg)
  /\ ~Succeeded => Failed(HttpError) /\ member.roles = rolesBefore

C6_Absent ==
  (Completed("remove_role") /\ ~Contains(rolesBefore, op.arg))
    => Succeeded /\ issued = <<>> /\ member.roles = rolesBefore

C6_RemoveRoleAsClaimed ==
  /\ C6_Absent
  /\ (Completed("remove_role") /\ Contains(rolesBefore, op.arg)) => C6_Outcome

\* C6 (amended): as above, but the remote call is issued only when the
\* member's guild resolves; when it does not, remove_role returns
\* guild-not-found with no remote call and no change.
C6_RemoveRole ==
  /\ C6_Absent
  /\ (Completed("remove_role") /\ Contains(rolesBefore, op.arg))
       => IF MatchingGuilds(member) # {}
          THEN C6_Outcome
          ELSE Failed(GuildNotFound) /\ issued = <<>>
                 /\ member.roles = rolesBefore

C6_Witness ==
  /\ Completed("remove_role")
  /\ Succeeded
  /\ Len(issued) = 1
  /\ Len(rolesBefore) = 3
  /\ Len(member.roles) = 1

\* C7: when no cached guild holds a member with self's (user id, joined_at)
\* pair, add_role (role not held), add_roles, remove_role (role held),
\* remove_roles, ban, unban and edit return guild-not-found, issue no remote
\* call and leave the role list unchanged.
Resolving ==
  \/ op.name \in {"add_roles", "remove_roles", "ban", "unban", "edit"}
  \/ op.name = "add_role" /\ ~Contains(rolesBefore, op.arg)
  \/ op.name = "remove_role" /\ Contains(rolesBefore, op.arg)

C7_ResolutionFailureLocal ==
  MatchingGuilds(member) = {}
    => /\ pc # "remote"
       /\ (pc = "done" /\ Resolving)
            => /\ Failed(GuildNotFound)
               /\ issued = <<>>
               /\ member.roles = rolesBefore

C7_Witness ==
  /\ MatchingGuilds(member) = {}
  /\ Completed("ban")
  /\ Failed(GuildNotFound)
  /\ \E g \in GuildIds : cache[g].members # <<>>

\* C8: find_guild returns the id of the one guild holding a member with
\* self's (user id, joined_at) pair when exactly one exists, guild-not-found
\* when none exists, and any id it returns is that of such a guild.
C8_ResolutionTotality ==
  Completed("find_guild")
    => /\ \A g \in GuildIds :
            MatchingGuilds(member) = {g}
              => result.tag = "Ok" /\ result.val = cache[g].id
       /\ MatchingGuilds(member) = {} => Failed(GuildNotFound)
       /\ result.tag = "Ok"
            => \E g \in MatchingGuilds(member) : result.val = cache[g].id

C8_Witness ==
  /\ Completed("find_guild")
  /\ result.tag = "Ok"
  /\ Cardinality(MatchingGuilds(member)) = 1
  /\ \E g \in GuildIds \ MatchingGuilds(member) :
        \E m \in Range(cache[g].members) :
           users[m.user].id = users[member.user].id
  /\ iterOrder[1] \notin MatchingGuilds(member)
  /\ \E g \in MatchingGuilds(member) :
        \E m \in Range(cache[g].members) : m.user # member.user

\* C9: no guard on the store or on a guild is acquired while a guard on a
\* User record is held, no guild guard is dropped while a user guard is still
\* held, and an operation that takes both kinds takes a guild guard first.
C9_LockOrder ==
  /\ \A i \in 1..Len(lockTrace) :
       LET e == lockTrace[i]
       IN  /\ (e.ev = "acq" /\ e.lock[1] \in {"guild", "store"})
                => ~HoldsKind(HeldBefore(i), "user")
           /\ (e.ev = "rel" /\ e.lock[1] = "guild")
                => ~HoldsKind(HeldBefore(i), "user")
  /\ \A i \in 1..Len(lockTrace) :
       (lockTrace[i].ev = "acq" /\ lockTrace[i].lock[1] = "user"
          /\ \E k \in 1..Len(lockTrace) : lockTrace[k] = Acq(Store))
         => \E j \in 1..(i - 1) :
               lockTrace[j].ev = "acq" /\ lockTrace[j].lock[1] = "guild"

C9_Witness ==
  /\ pc = "done"
  /\ op.name \in {"find_guild", "roles", "colour"}
  /\ \E i \in 1..Len(lockTrace) :
        /\ lockTrace[i] = Acq(User(member.user))
        /\ HoldsKind(HeldBefore(i), "guild")
        /\ HoldsKind(HeldBefore(i), "user")

\* C10 (as claimed): the guard on the process-wide guild mapping is released
\* before a guild's members or roles are examined.
C10_StoreLockAsClaimed ==
  op.name \in {"find_guild", "colour", "roles"}
    => \A i \in 1..Len(lockTrace) :
          lockTrace[i].ev = "use" => ~Contains(HeldBefore(i), Store)

\* C10 (amended): find_guild, colour and roles hold the read guard on the
\* guild mapping for their whole scan, also while a guild's members or roles
\* are examined under that guild's own guard; the guard is released before
\* the operation returns and is never held while a remote call is in flight.
C10_StoreLock ==
  /\ \A i \in 1..Len(lockTrace) :
       lockTrace[i].ev = "use"
         => /\ Contains(HeldBefore(i), Store)
            /\ Contains(HeldBefore(i), lockTrace[i].lock)
  /\ pc \in {"remote", "done"}
       => /\ ~HoldsKind(Held(lockTrace), "store")
          /\ ~HoldsKind(Held(lockTrace), "guild")
  /\ pc = "done" => Held(lockTrace) = <<>>

C10_Witness ==
  /\ pc = "remote"
  /\ \E i \in 1..Len(lockTrace) : lockTrace[i].ev = "use"
  /\ Held(lockTrace) = <<User(member.user)>>

\* C11: no operation holds the guards of two different guilds at once: when a
\* guild's lock is acquired, no guard on another guild is held.
C11_OneGuildAtATime ==
  \A i \in 1..Len(lockTrace) :
     (lockTrace[i].ev = "acq" /\ lockTrace[i].lock[1] = "guild")
       => \A j \in 1..Len(HeldBefore(i)) :
             HeldBefore(i)[j][1] = "guild"
               => HeldBefore(i)[j] = lockTrace[i].lock

C11_Witness ==
  /\ pc = "done"
  /\ op.name \in {"find_guild", "roles", "colour"}
  /\ \E i, j \in 1..Len(lockTrace) :
        /\ i < j
        /\ lockTrace[i].ev = "acq" /\ lockTrace[i].lock[1] = "guild"
        /\ lockTrace[j].ev = "acq" /\ lockTrace[j].lock[1] = "guild"
        /\ lockTrace[i].lock # lockTrace[j].lock

\* C12: colour() is None when the guild does not resolve; otherwise, among the
\* guild's Roles whose ids are in the member's role list, it is the colour of
\* a role of highest position among those with a non-default colour, and None
\* when there is no such role.
Coloured(g) ==
  {role \in Range(cache[g].roles) :
     role.id \in Range(member.roles) /\ role.colour # DefaultColour}

C12_ColourPrecedence ==
  Completed("colour")
    => IF MatchingGuilds(member) = {} THEN result.tag = "None"
       ELSE \E g \in MatchingGuilds(member) :
              IF Coloured(g) = {} THEN result.tag = "None"
              ELSE /\ result.tag = "Some"
                   /\ \E role \in Coloured(g) :
                        /\ result.val = role.colour
                        /\ \A o \in Coloured(g) : o.position <= role.position

C12_Witness ==
  /\ Completed("colour")
  /\ result.tag = "Some"
  /\ \E g \in MatchingGuilds(member) :
        \E role \in Coloured(g), dflt \in Range(cache[g].roles) :
           /\ result.val = role.colour
           /\ dflt.id \in Range(member.roles)
           /\ dflt.colour = DefaultColour
           /\ dflt.position > role.position
           /\ member.roles[1] = dflt.id

\* C13: after an edit with at least one argument present, or a refresh, returned
\* Ok, the local Webhook equals, field for field, the Webhook the remote call
\* returned.
C13_ReplaceOnSuccess ==
  (pc = "done" /\ op.name \in HookWrites /\ Succeeded
     /\ (op.name = "Webhook::edit" => ~edit_noop(op.arg.name, op.arg.avatar)))
    => /\ reply.tag = "Ok"
       /\ \A f \in {"id", "token", "channel_id", "guild_id", "name", "avatar",
                     "user"} : webhook[f] = reply.val[f]

C13_Witness ==
  /\ Completed("Webhook::edit") /\ Succeeded
  /\ op.arg.name.tag = "Some" /\ op.arg.avatar.tag = "None"
  /\ webhook.id # issued[1].id
  /\ webhook.token # issued[1].token
  /\ webhook.name = NoneOpt

\* C14: when the remote call of edit or of refresh fails, the Webhook is the
\* same as before the call and the call returns the remote error.
C14_Step ==
  (op'.name \in HookWrites /\ pc' \in {"remote", "done"}
     /\ (pc' = "done" => reply'.tag = "Err"))
    => /\ webhook' = webhook
       /\ pc' = "done" => result' = reply'

C14_FailureKeepsState == [][C14_Step]_vars

C14_Witness ==
  /\ Completed("Webhook::edit")
  /\ Failed("NotFound")
  /\ op.arg.name.tag = "Some"
  /\ webhook.name = NoneOpt

\* C15: edit(None, None) issues no remote call, returns Ok and leaves the
\* Webhook as it was; any other edit issues exactly one remote edit call.
C15_State ==
  (pc \in {"remote", "done"} /\ op.name = "Webhook::edit")
    => IF op.arg.name.tag = "None" /\ op.arg.avatar.tag = "None"
       THEN pc = "done" /\ issued = <<>> /\ Succeeded
       ELSE Len(issued) = 1 /\ issued[1].fn = "edit_webhook_with_token"

C15_Step ==
  (pc = "idle" /\ op'.name = "Webhook::edit"
     /\ op'.arg.name.tag = "None" /\ op'.arg.avatar.tag = "None")
    => webhook' = webhook

C15_EditNoop == [](C15_State) /\ [][C15_Step]_vars

C15_Witness ==
  /\ Completed("Webhook::edit")
  /\ op.arg.name.tag = "None" /\ op.arg.avatar.tag = "None"
  /\ Succeeded
  /\ webhook.name.tag = "Some"

\* C20: the map sent by edit has a name entry exactly when the name argument is
\* present and an avatar entry exactly when the avatar argument is present; an
\* empty avatar is sent as null, a non-empty avatar as that string.
C20_PartialUpdate ==
  (pc \in {"remote", "done"} /\ op.name = "Webhook::edit" /\ issued # <<>>)
    => LET map == issued[1].payload
       IN  /\ "name" \in DOMAIN map <=> op.arg.name.tag = "Some"
           /\ "avatar" \in DOMAIN map <=> op.arg.avatar.tag = "Some"
           /\ op.arg.avatar.tag = "Some"
                => IF op.arg.avatar.val = ""
                   THEN map["avatar"].type = "Null"
                   ELSE map["avatar"] = JString(op.arg.avatar.val)

C20_Witness ==
  /\ pc = "remote" /\ op.name = "Webhook::edit"
  /\ op.arg.name.tag = "None"
  /\ op.arg.avatar = SomeOpt("")
  /\ DOMAIN issued[1].payload = {"avatar"}
  /\ issued[1].payload["avatar"].type = "Null"

\* C16: display_name() returns the nickname when there is one and otherwise the
\* name the shared User has at that moment; it changes neither the Member nor
\* the User.
C16_State ==
  Completed("display_name")
    => result.val = IF member.nick.tag = "Some" THEN member.nick.val
                    ELSE users[member.user].name

C16_Step ==
  (pc = "idle" /\ op'.name = "display_name")
    => member' = member /\ users' = users

C16_DisplayName == [](C16_State) /\ [][C16_Step]_vars

C16_Witness ==
  /\ Completed("display_name")
  /\ member.nick.tag = "None"
  /\ users[member.user].name = "bob"
  /\ result.val = "bob"

\* C17: between calls the member's role list holds no role id twice, whatever
\* add_role, add_roles, remove_role and remove_roles calls were made and
\* however their remote calls ended.
C17_RolesStaySet == pc # "remote" => IsInjective(member.roles)

\* the list a multi-role operation entered with `before` holds at its remote call
Speculated(o, before) ==
  IF o.name = "add_roles" THEN before \o o.arg
  ELSE SelectSeq(before, LAMBDA r : ~Contains(o.arg, r))

MultiRole == pc \in {"remote", "done"} /\ op.name \in {"add_roles", "remove_roles"}

C18_Outcome ==
  /\ Len(issued) = 1
  /\ issued[1].fn = "edit_member"
  /\ issued[1].payload = RolesMap(Speculated(op, rolesBefore))
  /\ (pc = "remote" \/ Succeeded)
       => member.roles = Speculated(op, rolesBefore)

\* C18 (as claimed): add_roles(L) and remove_roles(L) change the local list
\* before the remote call, issue exactly one edit_member call whose roles
\* payload is the local list at that moment (old list followed by L, or old
\* list without the members of L), and change nothing more on success.
C18_OptimisticAsClaimed == MultiRole => C18_Outcome

\* C18 (amended): as above when the member's guild resolves; when it does not,
\* the call fails with guild-not-found before any local change or remote call.
C18_Optimistic ==
  MultiRole
    => IF MatchingGuilds(member) # {}
       THEN C18_Outcome
       ELSE pc = "done" /\ Failed(GuildNotFound) /\ issued = <<>>
              /\ member.roles = rolesBefore

C18_Witness ==
  /\ Completed("add_roles") /\ Succeeded
  /\ Len(issued) = 1
  /\ rolesBefore # <<>> /\ op.arg # <<>>
  /\ issued[1].payload.val = rolesBefore \o op.arg
  /\ member.roles = rolesBefore \o op.arg

\* C19: roles() returns None exactly when find_guild fails on the same cache;
\* otherwise it returns exactly the Roles of one guild holding a member with
\* self's (user id, joined_at) pair whose ids are in self's role list.
C19_RolesAgree ==
  Completed("roles")
    => /\ result.tag = "None" <=> find_guild(member).res.tag = "Err"
       /\ result.tag = "Some"
            => \E g \in MatchingGuilds(member) :
                  /\ IsInjective(result.val)
                  /\ Range(result.val) =
                       {role \in Range(cache[g].roles) :
                          role.id \in Range(member.roles)}

C19_Witness ==
  /\ Completed("roles")
  /\ result.tag = "Some"
  /\ member.roles = <<1>>
  /\ result.val = <<>>
  /\ \E g \in GuildIds \ MatchingGuilds(member) :
        \E role \in Range(cache[g].roles) : role.id = 1

\* thread t asks for a read guard on a User record it already holds one on
Reacquires(t) ==
  /\ Running(t)
  /\ NextEvent(t).ev = "acq"
  /\ NextEvent(t).lock[1] = "user"
  /\ HoldsUser(t, NextEvent(t).lock[2])

\* thread t waits for the writer to go away while the writer waits for t
WaitsForever(t) ==
  /\ Reacquires(t)
  /\ writer.st = "waiting"
  /\ writer.user = NextEvent(t).lock[2]

\* C21: threads running find_guild or roles next to a thread write-locking a
\* User record never wait forever, and no thread asks for a read guard on a
\* User record it still holds a read guard on.
C21_DeadlockFree ==
  \A t \in Threads : ~WaitsForever(t) /\ ~Reacquires(t)

\* the first guild, in iteration order, holding a member with self's pair
FirstMatching ==
  iterOrder[CHOOSE i \in 1..MaxGuild :
              /\ iterOrder[i] \in MatchingGuilds(member)
              /\ \A j \in 1..(i - 1) : iterOrder[j] \notin MatchingGuilds(member)]

GuildCalls ==
  {"add_role", "add_roles", "remove_role", "remove_roles", "ban", "unban",
   "edit"}

\* C22: whatever guild_id self stores, find_guild gives the result fixed by the
\* cache and self's (user id, joined_at) pair, and that guild is the one
\* passed to the remote call of every role, ban and edit operation.
C22_GuildIdIgnored ==
  /\ \A gid \in Opt(GuildIds) :
        LET fg == find_guild([member EXCEPT !.guild_id = gid]).res
        IN  IF MatchingGuilds(member) = {}
            THEN fg.tag = "Err"
            ELSE fg.tag = "Ok" /\ fg.val = FirstMatching
  /\ (op.name \in GuildCalls /\ issued # <<>>)
       => /\ MatchingGuilds(member) # {}
          /\ issued[1].guild = FirstMatching

C22_Witness ==
  /\ pc = "remote"
  /\ op.name \in GuildCalls
  /\ member.guild_id.tag = "Some"
  /\ issued[1].guild # member.guild_id.val
====
